---- MODULE Spec2Model ----
(***************************************************************************)
(* Model of the advent-calendar treasure chest (advent/advent.ino).        *)
(*                                                                         *)
(* One step of Loop is one pass of loop(): the real time clock is read     *)
(* (month, date), the lid switch and the RFID reader are sampled and the   *)
(* switch over boxState runs once.  Tick is the calendar of the real time  *)
(* clock moving on to the next day between two passes.                     *)
(*                                                                         *)
(* The diagnostic globals lastMinute and lastState (serial output only)    *)
(* and the scratch global userKey (overwritten before every use) are not   *)
(* modelled.  card, lidClosed and cmds record the inputs the last pass     *)
(* sampled and the actuator commands it issued; openedToday is a history   *)
(* variable.  hour records rtc.hour() as doDailyAnnouncement() read it in  *)
(* the last pass, and is -1 when the last pass did not call it.            *)
(***************************************************************************)
EXTENDS Integers, Sequences, FiniteSets, TLC

VARIABLES
  month,        \* rtc.month()
  date,         \* rtc.date(), day of month
  elapsed,      \* days the calendar has moved on since power-on
  boxState,     \* byte boxState
  lastDay,      \* int8_t lastDay
  firstUse,     \* bool firstUse
  blinking,     \* bool blinking
  lockPos,      \* angle last written to lockServo
  card,         \* uid at the RFID reader during the last pass (<<>>: none)
  lidClosed,    \* digitalRead(LID_BUTTON) == LOW during the last pass
  cmds,         \* audio/servo commands the last pass issued, in order
  hour,         \* rtc.hour() read by doDailyAnnouncement() in the last pass
  openedToday   \* history: a Standard key has unlocked the lid on this date

vars == <<month, date, elapsed, boxState, lastDay, firstUse, blinking,
          lockPos, card, lidClosed, cmds, hour, openedToday>>

\* ------------------------------------------------------------ bounds
\* Number of days the calendar may move on after power-on (Nov 24th).
MaxDays == 32

\* ------------------------------------------------------------ constants
LockOpenPos == 120
LockClosedPos == 60

RFIDMasterKey == <<4, 254, 179, 122, 175, 72, 128>>
RFIDStandardKey == <<4, 114, 217, 122, 175, 72, 128>>
UserMaster == 1
UserStandard == 2
UserUnknown == 3

AnnouncementBoxFilled == 0
AnnouncementBoxOpenedForCheck == 1
AnnouncementBoxClosedAfterCheck == 2
AnnouncementBoxOpenedForCheckAlreadyPreparedForFirstUse == 3
AnnouncementBoxClosedAfterCheckAlreadyPreparedForFirstUse == 4
AnnouncementBoxOpenedForCheckAlreadyPrepared == 5
AnnouncementBoxClosedAfterCheckAlreadyPrepared == 6
AnnouncementFirsUseExplanation == 7
AnnouncementBoxClosed == 8
AnnouncementLastDay == 9
AnnouncementBoxOpenedForFilling == 10
AnnouncementBoxOpenedForFirstFilling == 11
AnnouncementUnknownKey == 12
AnnouncementUserTriedEarly == 13
AnnouncementUserTriedAgain == 14
AnnouncementUserTriedOffSeason == 15
DaylyEarlyMorningGreeting == 16
DaylyMorningGreeting == 17
DaylyGreeting == 18
DaylyAnnouncement == <<19, 20, 21, 22, 23, 24, 25, 26,
                       27, 28, 29, 30, 31, 32, 33, 34,
                       35, 36, 37, 38, 39, 40, 41, 42>>

StateOpenedForFilling == 1
StateFilled == 2
StateReadyForFirstUse == 3
StateOpenedForChecking == 4
StateReadyForUse == 5
StateOpenedForEmptiing == 6
StateEmpty == 7
StateOffSeason == 8

\* ------------------------------------------------------------ inputs
\* No token in the field: PICC_IsNewCardPresent() / PICC_ReadCardSerial() fail.
NoCard == <<>>

\* Tokens that may be presented: the two known keys, a 7 byte uid that
\* differs from both in its last byte, and a 4 byte uid that is a prefix of
\* the master key.
Uids == { RFIDMasterKey,
          RFIDStandardKey,
          <<4, 254, 179, 122, 175, 72, 129>>,
          <<4, 254, 179, 122>> }

Hours == 0 .. 23

\* Bytes a read past the end of DaylyAnnouncement[] may return.  Which byte
\* lies there depends on the memory layout of the build; the model lets the
\* read return any of these: a track below the table, the tracks at both ends
\* of the table, and numbers no track of the sound board has.
GarbageBytes == {0, 18, 19, 42, 43, 255}

\* ------------------------------------------------------------ commands
Play(track) == <<"play", track>>
LockCmd == <<"lock">>
UnlockCmd == <<"unlock">>

\* ------------------------------------------------------------ helpers
\* memcmp(a, b, n) == 0 over the first n bytes.
memcmpEqual(a, b, n) == \A i \in 1 .. n : a[i] = b[i]

\* Mutant: the uid is compared with the keys by size alone (memcmp left out).
readRFIDKey_SizeOnly(uid) ==
  IF Len(uid) = Len(RFIDMasterKey) THEN UserMaster
  ELSE IF Len(uid) = Len(RFIDStandardKey) THEN UserStandard
  ELSE UserUnknown

readRFIDKey(uid) ==
  IF Len(uid) = Len(RFIDMasterKey) /\ memcmpEqual(uid, RFIDMasterKey, Len(RFIDMasterKey))
    THEN UserMaster
  ELSE IF Len(uid) = Len(RFIDStandardKey) /\ memcmpEqual(uid, RFIDStandardKey, Len(RFIDStandardKey))
    THEN UserStandard
  ELSE UserUnknown

\* Days of the month the real time clock counts before it rolls over
\* (leap years left out).
DaysInMonth(m) ==
  IF m = 2 THEN 28
  ELSE IF m \in {4, 6, 9, 11} THEN 30
  ELSE 31

\* Mutant: the table is indexed with the date itself, DaylyAnnouncement[d].
DaylyAnnouncementAt_NoMinusOne(d) ==
  IF d \in 0 .. (Len(DaylyAnnouncement) - 1)
    THEN { DaylyAnnouncement[d + 1] }
    ELSE GarbageBytes

\* Values DaylyAnnouncement[d - 1] can yield: the table entry while the index
\* is inside the 24 entry array, an arbitrary byte when the read is past its
\* end (undefined behaviour).
DaylyAnnouncementAt(d) ==
  IF d - 1 \in 0 .. (Len(DaylyAnnouncement) - 1)
    THEN { DaylyAnnouncement[d] }
    ELSE GarbageBytes

\* Mutant: the two hour tests are made in the other order.
doDailyAnnouncement_MorningFirst(h, t) ==
  IF h > 5 /\ h < 11 THEN << Play(DaylyMorningGreeting), Play(t) >>
  ELSE IF h > 5 /\ h < 7 THEN << Play(DaylyEarlyMorningGreeting), Play(t) >>
  ELSE << Play(DaylyGreeting), Play(t) >>

\* Tracks doDailyAnnouncement() plays at hour h with content track t.
doDailyAnnouncement(h, t) ==
  IF h > 5 /\ h < 7 THEN << Play(DaylyEarlyMorningGreeting), Play(t) >>
  ELSE IF h > 5 /\ h < 11 THEN << Play(DaylyMorningGreeting), Play(t) >>
  ELSE << Play(DaylyGreeting), Play(t) >>

\* What one pass of loop() leaves behind.
Pass(st, ld, fu, bl, pos, out, opened, uid, lid) ==
  /\ boxState' = st
  /\ lastDay' = ld
  /\ firstUse' = fu
  /\ blinking' = bl
  /\ lockPos' = pos
  /\ cmds' = out
  /\ hour' = -1
  /\ openedToday' = opened
  /\ card' = uid
  /\ lidClosed' = lid
  /\ UNCHANGED <<month, date, elapsed>>

\* A pass that issues no command and changes nothing.
Idle(uid, lid) ==
  Pass(boxState, lastDay, firstUse, blinking, lockPos, <<>>, openedToday, uid, lid)

Init ==
  /\ month = 11
  /\ date = 24
  /\ elapsed = 0
  /\ boxState = StateOffSeason
  /\ lastDay = -1
  /\ firstUse = TRUE
  /\ blinking = FALSE
  /\ lockPos = LockClosedPos
  /\ card = NoCard
  /\ lidClosed = TRUE
  /\ cmds = <<>>
  /\ hour = -1
  /\ openedToday = FALSE

\* ------------------------------------------------------------ loop()
\* Mutant: the closed lid is announced but lockLid() is not called.
CaseOpenedForFilling_NoLock(uid, lid) ==
  IF lid
    THEN Pass(StateFilled, lastDay, firstUse, blinking, lockPos,
              << Play(AnnouncementBoxFilled) >>, openedToday, uid, lid)
    ELSE Idle(uid, lid)

\* case StateOpenedForFilling
CaseOpenedForFilling(uid, lid) ==
  IF lid
    THEN Pass(StateFilled, lastDay, firstUse, blinking, LockClosedPos,
              << Play(AnnouncementBoxFilled), LockCmd >>, openedToday, uid, lid)
    ELSE Idle(uid, lid)

\* case StateFilled, "december and new day and first use?"
FilledNewDayFirstUse(uid, lid) ==
  Pass(StateReadyForFirstUse, date, firstUse, TRUE, lockPos,
       <<>>, openedToday, uid, lid)

\* Mutant: the second new-day branch records the day as the first one does.
FilledNewDay_SetsLastDay(uid, lid) ==
  Pass(StateReadyForUse, date, firstUse, TRUE, lockPos,
       <<>>, openedToday, uid, lid)

\* case StateFilled, "december and new day?"
FilledNewDay(uid, lid) ==
  Pass(StateReadyForUse, lastDay, firstUse, TRUE, lockPos,
       <<>>, openedToday, uid, lid)

\* case StateFilled, token handling
FilledToken(uid, lid) ==
  IF uid = NoCard
    THEN Idle(uid, lid)
  ELSE IF readRFIDKey(uid) = UserMaster
    THEN Pass(StateOpenedForChecking, lastDay, firstUse, blinking, LockOpenPos,
              << Play(AnnouncementBoxOpenedForCheck), UnlockCmd >>,
              openedToday, uid, lid)
  ELSE IF readRFIDKey(uid) = UserStandard
    THEN Pass(StateFilled, lastDay, firstUse, blinking, lockPos,
              << Play(AnnouncementUserTriedEarly) >>, openedToday, uid, lid)
  ELSE Pass(StateFilled, lastDay, firstUse, blinking, lockPos,
            << Play(AnnouncementUnknownKey) >>, openedToday, uid, lid)

\* Mutant: the second new-day test leaves out the month.
CaseFilled_NoMonthCheck(uid, lid) ==
  IF month = 12 /\ date # lastDay /\ firstUse
    THEN FilledNewDayFirstUse(uid, lid)
  ELSE IF date # lastDay
    THEN FilledNewDay(uid, lid)
  ELSE FilledToken(uid, lid)

\* Mutant: a token at the reader is handled before the date is looked at.
CaseFilled_TokenFirst(uid, lid) ==
  IF uid # NoCard
    THEN FilledToken(uid, lid)
  ELSE IF month = 12 /\ date # lastDay /\ firstUse
    THEN FilledNewDayFirstUse(uid, lid)
  ELSE IF month = 12 /\ date # lastDay
    THEN FilledNewDay(uid, lid)
  ELSE FilledToken(uid, lid)

\* case StateFilled
CaseFilled(uid, lid) ==
  IF month = 12 /\ date # lastDay /\ firstUse
    THEN FilledNewDayFirstUse(uid, lid)
  ELSE IF month = 12 /\ date # lastDay
    THEN FilledNewDay(uid, lid)
  ELSE FilledToken(uid, lid)

\* case StateReadyForFirstUse
CaseReadyForFirstUse(uid, lid) ==
  IF uid = NoCard
    THEN Idle(uid, lid)
  ELSE IF readRFIDKey(uid) = UserMaster
    THEN Pass(StateOpenedForChecking, lastDay, firstUse, blinking, LockOpenPos,
              << Play(AnnouncementBoxOpenedForCheckAlreadyPreparedForFirstUse),
                 UnlockCmd >>, openedToday, uid, lid)
  ELSE IF readRFIDKey(uid) = UserStandard
    THEN Pass(StateOpenedForEmptiing, date, FALSE, blinking, LockOpenPos,
              << Play(AnnouncementFirsUseExplanation), UnlockCmd >>,
              TRUE, uid, lid)
  ELSE Pass(StateReadyForFirstUse, lastDay, firstUse, blinking, lockPos,
            << Play(AnnouncementUnknownKey) >>, openedToday, uid, lid)

\* case StateReadyForUse, standard key, with rtc.hour() = h and t the byte
\* that DaylyAnnouncement[rtc.date() - 1] yields.
ReadyForUseStandard(h, t, uid, lid) ==
  /\ boxState' = StateOpenedForEmptiing
  /\ lastDay' = date
  /\ lockPos' = LockOpenPos
  /\ cmds' = doDailyAnnouncement(h, t) \o << UnlockCmd >>
  /\ hour' = h
  /\ openedToday' = TRUE
  /\ card' = uid
  /\ lidClosed' = lid
  /\ UNCHANGED <<month, date, elapsed, firstUse, blinking>>

\* The token handling under "case StateReadyForUse:", which the passes that
\* start in StateReadyForUse run, and also those that start in
\* StateOpenedForChecking and take none of its three lid-closed branches
\* (that case ends without a break).
HandleReadyForUse(uid, lid) ==
  IF uid = NoCard
    THEN Idle(uid, lid)
  ELSE IF readRFIDKey(uid) = UserMaster
    THEN Pass(StateOpenedForChecking, lastDay, firstUse, blinking, LockOpenPos,
              << Play(AnnouncementBoxOpenedForCheckAlreadyPrepared), UnlockCmd >>,
              openedToday, uid, lid)
  ELSE IF readRFIDKey(uid) = UserStandard
    THEN \E h \in Hours, t \in DaylyAnnouncementAt(date) :
           ReadyForUseStandard(h, t, uid, lid)
  ELSE Pass(StateReadyForUse, lastDay, firstUse, blinking, lockPos,
            << Play(AnnouncementUnknownKey) >>, openedToday, uid, lid)

\* Mutant: the new-day test comes before the first-use test.
CaseOpenedForChecking_NewDayFirst(uid, lid) ==
  IF lid /\ date # lastDay
    THEN Pass(StateReadyForUse, lastDay, firstUse, blinking, LockClosedPos,
              << Play(AnnouncementBoxClosedAfterCheckAlreadyPrepared), LockCmd >>,
              openedToday, uid, lid)
  ELSE IF lid /\ firstUse
    THEN Pass(StateReadyForFirstUse, lastDay, firstUse, blinking, LockClosedPos,
              << Play(AnnouncementBoxClosedAfterCheckAlreadyPreparedForFirstUse),
                 LockCmd >>, openedToday, uid, lid)
  ELSE IF lid
    THEN Pass(StateFilled, lastDay, firstUse, blinking, LockClosedPos,
              << Play(AnnouncementBoxClosedAfterCheck), LockCmd >>,
              openedToday, uid, lid)
  ELSE HandleReadyForUse(uid, lid)

\* Mutant: the case ends with a break, so an open lid leaves the pass idle.
CaseOpenedForChecking_WithBreak(uid, lid) ==
  IF lid /\ firstUse
    THEN Pass(StateReadyForFirstUse, lastDay, firstUse, blinking, LockClosedPos,
              << Play(AnnouncementBoxClosedAfterCheckAlreadyPreparedForFirstUse),
                 LockCmd >>, openedToday, uid, lid)
  ELSE IF lid /\ date # lastDay
    THEN Pass(StateReadyForUse, lastDay, firstUse, blinking, LockClosedPos,
              << Play(AnnouncementBoxClosedAfterCheckAlreadyPrepared), LockCmd >>,
              openedToday, uid, lid)
  ELSE IF lid
    THEN Pass(StateFilled, lastDay, firstUse, blinking, LockClosedPos,
              << Play(AnnouncementBoxClosedAfterCheck), LockCmd >>,
              openedToday, uid, lid)
  ELSE Idle(uid, lid)

\* case StateOpenedForChecking
CaseOpenedForChecking(uid, lid) ==
  IF lid /\ firstUse
    THEN Pass(StateReadyForFirstUse, lastDay, firstUse, blinking, LockClosedPos,
              << Play(AnnouncementBoxClosedAfterCheckAlreadyPreparedForFirstUse),
                 LockCmd >>, openedToday, uid, lid)
  ELSE IF lid /\ date # lastDay
    THEN Pass(StateReadyForUse, lastDay, firstUse, blinking, LockClosedPos,
              << Play(AnnouncementBoxClosedAfterCheckAlreadyPrepared), LockCmd >>,
              openedToday, uid, lid)
  ELSE IF lid
    THEN Pass(StateFilled, lastDay, firstUse, blinking, LockClosedPos,
              << Play(AnnouncementBoxClosedAfterCheck), LockCmd >>,
              openedToday, uid, lid)
  ELSE HandleReadyForUse(uid, lid)

\* case StateReadyForUse
CaseReadyForUse(uid, lid) == HandleReadyForUse(uid, lid)

\* case StateOpenedForEmptiing
CaseOpenedForEmptiing(uid, lid) ==
  IF lid
    THEN Pass(StateEmpty, lastDay, firstUse, FALSE, LockClosedPos,
              << Play(AnnouncementBoxClosed), LockCmd >>, openedToday, uid, lid)
    ELSE Idle(uid, lid)

\* Mutant: the season ends on the 24th and on every later day of the month.
IsLastDay_From24th == date >= 24

\* Mutant: the season ends on the 24th of December only.
IsLastDay_DecemberOnly == month = 12 /\ date = 24

\* case StateEmpty, "last day?"
IsLastDay == date = 24

\* case StateEmpty
CaseEmpty(uid, lid) ==
  IF IsLastDay
    THEN Pass(StateOffSeason, lastDay, firstUse, blinking, lockPos,
              << Play(AnnouncementLastDay) >>, openedToday, uid, lid)
  ELSE IF uid = NoCard
    THEN Idle(uid, lid)
  ELSE IF readRFIDKey(uid) = UserMaster
    THEN Pass(StateOpenedForFilling, lastDay, firstUse, blinking, LockOpenPos,
              << Play(AnnouncementBoxOpenedForFilling), UnlockCmd >>,
              openedToday, uid, lid)
  ELSE IF readRFIDKey(uid) = UserStandard
    THEN Pass(StateEmpty, lastDay, firstUse, blinking, lockPos,
              << Play(AnnouncementUserTriedAgain) >>, openedToday, uid, lid)
  ELSE Pass(StateEmpty, lastDay, firstUse, blinking, lockPos,
            << Play(AnnouncementUnknownKey) >>, openedToday, uid, lid)

\* Mutant: every December day counts as a new start.
IsNewStart_AnyDecemberDay == month = 12

\* case StateOffSeason, master key: the test that decides firstUse
IsNewStart == month = 12 /\ date = 1

\* case StateOffSeason
CaseOffSeason(uid, lid) ==
  IF uid = NoCard
    THEN Idle(uid, lid)
  ELSE IF readRFIDKey(uid) = UserMaster
    THEN Pass(StateOpenedForFilling, lastDay, IsNewStart, blinking,
              LockOpenPos,
              << Play(AnnouncementBoxOpenedForFirstFilling), UnlockCmd >>,
              openedToday, uid, lid)
  ELSE IF readRFIDKey(uid) = UserStandard
    THEN Pass(StateOffSeason, lastDay, firstUse, blinking, lockPos,
              << Play(AnnouncementUserTriedOffSeason) >>, openedToday, uid, lid)
  ELSE Pass(StateOffSeason, lastDay, firstUse, blinking, lockPos,
            << Play(AnnouncementUnknownKey) >>, openedToday, uid, lid)

\* One pass of loop() with token uid at the reader (NoCard: none) and the lid
\* switch reading lid.
loop(uid, lid) ==
  \/ boxState = StateOpenedForFilling /\ CaseOpenedForFilling(uid, lid)
  \/ boxState = StateFilled /\ CaseFilled(uid, lid)
  \/ boxState = StateReadyForFirstUse /\ CaseReadyForFirstUse(uid, lid)
  \/ boxState = StateOpenedForChecking /\ CaseOpenedForChecking(uid, lid)
  \/ boxState = StateReadyForUse /\ CaseReadyForUse(uid, lid)
  \/ boxState = StateOpenedForEmptiing /\ CaseOpenedForEmptiing(uid, lid)
  \/ boxState = StateEmpty /\ CaseEmpty(uid, lid)
  \/ boxState = StateOffSeason /\ CaseOffSeason(uid, lid)

Loop == \E uid \in Uids \cup {NoCard}, lid \in BOOLEAN : loop(uid, lid)

\* The real time clock reaches midnight between two passes: rtc.update()
\* returns the next calendar day from now on.  No pass has run on the new day
\* yet, so the record of the last pass is cleared.
Tick ==
  /\ elapsed < MaxDays
  /\ elapsed' = elapsed + 1
  /\ date' = IF date >= DaysInMonth(month) THEN 1 ELSE date + 1
  /\ month' = IF date >= DaysInMonth(month)
                THEN (IF month = 12 THEN 1 ELSE month + 1)
                ELSE month
  /\ card' = NoCard
  /\ cmds' = <<>>
  /\ hour' = -1
  /\ openedToday' = FALSE
  /\ UNCHANGED <<boxState, lastDay, firstUse, blinking, lockPos, lidClosed>>

Next == Loop \/ Tick

Spec == Init /\ [][Next]_vars

TypeOK ==
  /\ month \in 1 .. 12
  /\ date \in 1 .. 31
  /\ elapsed \in 0 .. MaxDays
  /\ boxState \in StateOpenedForFilling .. StateOffSeason
  /\ lastDay \in -1 .. 31
  /\ firstUse \in BOOLEAN
  /\ blinking \in BOOLEAN
  /\ lockPos \in {LockOpenPos, LockClosedPos}
  /\ card \in Uids \cup {NoCard}
  /\ lidClosed \in BOOLEAN
  /\ hour \in {-1} \cup Hours
  /\ openedToday \in BOOLEAN

\* ------------------------------------------------------------ vocabulary
\* The step is one pass of loop() (Tick alone moves elapsed).
IsPass == elapsed' = elapsed

\* The new-December-day rule of case StateFilled applies in this state.
NewDayRule == month = 12 /\ date # lastDay

\* A token that is neither the master nor the standard key.
UnknownUid(uid) ==
  uid # NoCard /\ uid # RFIDMasterKey /\ uid # RFIDStandardKey

\* out holds command c / the number of times out holds c.
HasCmd(out, c) == \E i \in DOMAIN out : out[i] = c
CountCmd(out, c) == Cardinality({ i \in DOMAIN out : out[i] = c })

\* blinking, lastDay and firstUse are left alone by the step.
AuxUnchanged == blinking' = blinking /\ lastDay' = lastDay /\ firstUse' = firstUse

\* The pass started in a state and with a lid reading in which loop() polls
\* the RFID reader.
TokenRead(lid) ==
  \/ boxState = StateFilled /\ ~NewDayRule
  \/ boxState \in {StateReadyForFirstUse, StateReadyForUse, StateOffSeason}
  \/ boxState = StateEmpty /\ date # 24
  \/ boxState = StateOpenedForChecking /\ ~lid

C2_StandardKeyRefused ==
  [][ ( /\ IsPass
        /\ card' = RFIDStandardKey
        /\ \/ boxState = StateFilled /\ ~NewDayRule
           \/ boxState = StateEmpty /\ date # 24
           \/ boxState = StateOffSeason )
        => /\ boxState' = boxState
           /\ AuxUnchanged
           /\ lockPos' = lockPos
           /\ ~HasCmd(cmds', UnlockCmd)
           /\ cmds' = << Play(IF boxState = StateFilled
                                THEN AnnouncementUserTriedEarly
                              ELSE IF boxState = StateEmpty
                                THEN AnnouncementUserTriedAgain
                              ELSE AnnouncementUserTriedOffSeason) >> ]_vars

\* The standard key was just refused in Filled, outside December.
C2_Witness ==
  /\ card = RFIDStandardKey
  /\ boxState = StateFilled
  /\ month # 12
  /\ lockPos = LockClosedPos
  /\ cmds = << Play(AnnouncementUserTriedEarly) >>

\* ------------------------------------------------------------ C3
\* C3: from OffSeason a pass with the master key ends in OpenedForFilling,
\* having played AnnouncementBoxOpenedForFirstFilling and issued one unlock;
\* firstUse is true afterwards exactly when month = 12 and date = 1; lastDay
\* and blinking are unchanged.
C3_MasterKeyInOffSeason ==
  [][ (IsPass /\ boxState = StateOffSeason /\ card' = RFIDMasterKey)
        => /\ boxState' = StateOpenedForFilling
           /\ CountCmd(cmds', UnlockCmd) = 1
           /\ CountCmd(cmds', Play(AnnouncementBoxOpenedForFirstFilling)) = 1
           /\ Len(cmds') = 2
           /\ lockPos' = LockOpenPos
           /\ firstUse' = (month = 12 /\ date = 1)
           /\ lastDay' = lastDay
           /\ blinking' = blinking ]_vars

\* The master key just opened the box for its first filling on December 1st.
C3_Witness ==
  /\ card = RFIDMasterKey
  /\ boxState = StateOpenedForFilling
  /\ cmds = << Play(AnnouncementBoxOpenedForFirstFilling), UnlockCmd >>
  /\ month = 12
  /\ date = 1
  /\ firstUse

\* ------------------------------------------------------------ C4
\* C4: a pass that starts in Filled with month = 12 and date # lastDay ends in
\* ReadyForFirstUse if firstUse and in ReadyForUse otherwise, with blinking
\* set, whatever token is at the reader, and issues no command; a pass that
\* starts in Filled with month # 12 or date = lastDay never ends in one of the
\* two ready states.
C4_NewDayRuleInFilled ==
  [][ (IsPass /\ boxState = StateFilled)
        => IF NewDayRule
             THEN /\ boxState' = IF firstUse THEN StateReadyForFirstUse
                                             ELSE StateReadyForUse
                  /\ blinking'
                  /\ firstUse' = firstUse
                  /\ lockPos' = lockPos
                  /\ cmds' = <<>>
             ELSE boxState' \notin {StateReadyForFirstUse, StateReadyForUse} ]_vars

\* The new-day rule just fired in a pass during which the master key was at
\* the reader: the box is ready, locked, and nothing was played.
C4_Witness ==
  /\ boxState = StateReadyForUse
  /\ card = RFIDMasterKey
  /\ cmds = <<>>
  /\ blinking
  /\ month = 12
  /\ lockPos = LockClosedPos

\* ------------------------------------------------------------ C5
\* C5 (as stated): every pass in Filled in which the new-day rule fires sets
\* lastDay to the current date.
C5_NewDayRuleSetsLastDay ==
  [][ (IsPass /\ boxState = StateFilled /\ NewDayRule) => lastDay' = date ]_vars

\* C5 (amended): a pass in Filled in which the new-day rule fires sets lastDay
\* to the current date when firstUse is true (going to ReadyForFirstUse) and
\* leaves lastDay unchanged, hence different from date, when firstUse is false
\* (going to ReadyForUse).
C5_NewDayRuleSetsLastDayOnFirstUseOnly ==
  [][ (IsPass /\ boxState = StateFilled /\ NewDayRule)
        => IF firstUse
             THEN boxState' = StateReadyForFirstUse /\ lastDay' = date
             ELSE /\ boxState' = StateReadyForUse
                  /\ lastDay' = lastDay
                  /\ lastDay' # date ]_vars

\* The rule just fired with firstUse false: ReadyForUse on a December day
\* that lastDay does not name.
C5_Witness ==
  /\ boxState = StateReadyForUse
  /\ lockPos = LockClosedPos
  /\ blinking
  /\ ~firstUse
  /\ cmds = <<>>
  /\ month = 12
  /\ lastDay # date

C7_CheckingClosedPriority ==
  [][ (IsPass /\ boxState = StateOpenedForChecking /\ lidClosed')
        => /\ CountCmd(cmds', LockCmd) = 1
           /\ lockPos' = LockClosedPos
           /\ AuxUnchanged
           /\ openedToday' = openedToday
           /\ IF firstUse
                THEN /\ boxState' = StateReadyForFirstUse
                     /\ cmds' = << Play(AnnouncementBoxClosedAfterCheckAlreadyPreparedForFirstUse), LockCmd >>
              ELSE IF date # lastDay
                THEN /\ boxState' = StateReadyForUse
                     /\ cmds' = << Play(AnnouncementBoxClosedAfterCheckAlreadyPrepared), LockCmd >>
              ELSE /\ boxState' = StateFilled
                   /\ cmds' = << Play(AnnouncementBoxClosedAfterCheck), LockCmd >> ]_vars

\* The lid was just closed after a check with firstUse false and
\* date = lastDay, while the standard key was at the reader: back to Filled.
C7_Witness ==
  /\ boxState = StateFilled
  /\ cmds = << Play(AnnouncementBoxClosedAfterCheck), LockCmd >>
  /\ ~firstUse
  /\ date = lastDay
  /\ card = RFIDStandardKey
  /\ lidClosed

\* ------------------------------------------------------------ C8
\* C8: in every reachable state, boxState being ReadyForFirstUse or
\* ReadyForUse implies blinking.
C8_ReadyImpliesBlinking ==
  boxState \in {StateReadyForFirstUse, StateReadyForUse} => blinking

\* ------------------------------------------------------------ C9
\* C9: in every reachable state, blinking implies that boxState is
\* ReadyForFirstUse, ReadyForUse, OpenedForChecking or OpenedForEmptying.
C9_BlinkingOnlyWhileReady ==
  blinking => boxState \in {StateReadyForFirstUse, StateReadyForUse,
                            StateOpenedForChecking, StateOpenedForEmptiing}

\* ------------------------------------------------------------ C10
\* C10: once a pass has unlocked the lid for the standard key, no later pass
\* on the same calendar day unlocks the lid for the standard key.
C10_StandardOpensOncePerDay ==
  [][ (IsPass /\ card' = RFIDStandardKey /\ HasCmd(cmds', UnlockCmd))
        => ~openedToday ]_vars

\* ------------------------------------------------------------ vocabulary
\* The pass ran doDailyAnnouncement().
Announced == hour' # -1

\* The pass started where the token handling of case StateReadyForUse runs.
ReadyForUseRules(lid) ==
  \/ boxState = StateReadyForUse
  \/ boxState = StateOpenedForChecking /\ ~lid

\* The three greeting commands.
Greetings == { Play(DaylyEarlyMorningGreeting), Play(DaylyMorningGreeting),
               Play(DaylyGreeting) }

\* ------------------------------------------------------------ C11
\* C11: when the standard key is handled by the ReadyForUse logic on a date
\* in 1 .. 24, the pass plays a greeting, then entry date - 1 of the table
\* DaylyAnnouncement, which is track 18 + date, then issues one unlock; it
\* sets lastDay to date and ends in OpenedForEmptying.
C11_DailyTrackByDate ==
  [][ ( /\ IsPass
        /\ ReadyForUseRules(lidClosed')
        /\ card' = RFIDStandardKey
        /\ date \in 1 .. 24 )
        => /\ Announced
           /\ Len(cmds') = 3
           /\ cmds'[1] \in Greetings
           /\ cmds'[2] = Play(DaylyAnnouncement[date])
           /\ cmds'[2] = Play(18 + date)
           /\ cmds'[3] = UnlockCmd
           /\ lockPos' = LockOpenPos
           /\ lastDay' = date
           /\ boxState' = StateOpenedForEmptiing ]_vars

\* The box was just opened with the standard key on December 24th: the last
\* entry of the table was played.
C11_Witness ==
  /\ boxState = StateOpenedForEmptiing
  /\ card = RFIDStandardKey
  /\ month = 12
  /\ date = 24
  /\ lastDay = 24
  /\ Len(cmds) = 3
  /\ cmds[2] = Play(42)
  /\ cmds[3] = UnlockCmd

C13_CheckingFallsThrough ==
  [][ (IsPass /\ boxState = StateOpenedForChecking /\ ~lidClosed')
        => /\ firstUse' = firstUse
           /\ blinking' = blinking
           /\ IF card' = NoCard
                THEN /\ boxState' = StateOpenedForChecking
                     /\ cmds' = <<>>
                     /\ lastDay' = lastDay
                     /\ lockPos' = lockPos
              ELSE IF card' = RFIDMasterKey
                THEN /\ boxState' = StateOpenedForChecking
                     /\ cmds' = << Play(AnnouncementBoxOpenedForCheckAlreadyPrepared),
                                   UnlockCmd >>
                     /\ lastDay' = lastDay
                     /\ lockPos' = LockOpenPos
              ELSE IF card' = RFIDStandardKey
                THEN /\ boxState' = StateOpenedForEmptiing
                     /\ Announced
                     /\ Len(cmds') = 3
                     /\ cmds'[1] \in Greetings
                     /\ cmds'[3] = UnlockCmd
                     /\ lastDay' = date
                     /\ lockPos' = LockOpenPos
              ELSE /\ boxState' = StateReadyForUse
                   /\ cmds' = << Play(AnnouncementUnknownKey) >>
                   /\ lastDay' = lastDay
                   /\ lockPos' = lockPos ]_vars

\* The standard key was just handled by the ReadyForUse rules while the
\* first-use explanation was still owed: only a pass that started in
\* OpenedForChecking, or one after it, ends this way.
C13_Witness ==
  /\ boxState = StateOpenedForEmptiing
  /\ card = RFIDStandardKey
  /\ firstUse
  /\ ~lidClosed
  /\ hour # -1
  /\ lastDay = date

\* ------------------------------------------------------------ vocabulary
\* The three states in which the lid is unlocked for somebody / the five in
\* which it is meant to be locked.
OpenedStates ==
  {StateOpenedForFilling, StateOpenedForChecking, StateOpenedForEmptiing}
LockedStates ==
  {StateFilled, StateReadyForFirstUse, StateReadyForUse, StateEmpty, StateOffSeason}

\* ------------------------------------------------------------ C14
\* C14: in every reachable state the servo was last moved to the locked
\* position when boxState is Filled, ReadyForFirstUse, ReadyForUse, Empty or
\* OffSeason, and to the unlocked position when boxState is OpenedForFilling,
\* OpenedForChecking or OpenedForEmptying.
C14_LockMatchesState ==
  /\ boxState \in LockedStates => lockPos = LockClosedPos
  /\ boxState \in OpenedStates => lockPos = LockOpenPos

\* ------------------------------------------------------------ C15
\* C15: whenever a pass runs doDailyAnnouncement(), 1 <= date <= 24, so the
\* index date - 1 is inside the 24 entry table.
C15_AnnouncementDateInTable ==
  [][ (IsPass /\ Announced) => date \in 1 .. Len(DaylyAnnouncement) ]_vars

\* ------------------------------------------------------------ C16
\* C16: a pass unlocks the lid for the standard key only when month = 12.
C16_StandardOpensInDecemberOnly ==
  [][ (IsPass /\ card' = RFIDStandardKey /\ HasCmd(cmds', UnlockCmd))
        => month = 12 ]_vars

\* ------------------------------------------------------------ C17
\* C17: every pass in which the standard key unlocks the lid while firstUse
\* is true plays AnnouncementFirsUseExplanation and sets firstUse to false;
\* firstUse is false whenever boxState is OpenedForEmptying or Empty; and
\* firstUse is true whenever boxState is ReadyForFirstUse.  (The two state
\* conditions hold initially, so they are stated of the state after each
\* step.)
C17_FirstUseExplanationNeverSkipped ==
  [][ /\ ( /\ IsPass
           /\ card' = RFIDStandardKey
           /\ HasCmd(cmds', UnlockCmd)
           /\ firstUse )
         => /\ HasCmd(cmds', Play(AnnouncementFirsUseExplanation))
            /\ ~firstUse'
      /\ boxState' \in {StateOpenedForEmptiing, StateEmpty} => ~firstUse'
      /\ boxState' = StateReadyForFirstUse => firstUse' ]_vars

\* ------------------------------------------------------------ C18
\* C18: a pass issues a lock command exactly when it starts in
\* OpenedForFilling, OpenedForChecking or OpenedForEmptying and the lid reads
\* closed; such a pass issues exactly one lock command and ends in Filled
\* (from OpenedForFilling), in ReadyForFirstUse, ReadyForUse or Filled (from
\* OpenedForChecking), or in Empty (from OpenedForEmptying), whatever token is
\* at the reader.
C18_LockOnlyOnClosedLid ==
  [][ IsPass
        => /\ HasCmd(cmds', LockCmd)
                <=> (lidClosed' /\ boxState \in OpenedStates)
           /\ (lidClosed' /\ boxState \in OpenedStates)
                => /\ CountCmd(cmds', LockCmd) = 1
                   /\ lockPos' = LockClosedPos
                   /\ ~HasCmd(cmds', UnlockCmd)
                   /\ boxState = StateOpenedForFilling
                        => boxState' = StateFilled
                   /\ boxState = StateOpenedForChecking
                        => boxState' \in {StateReadyForFirstUse,
                                          StateReadyForUse, StateFilled}
                   /\ boxState = StateOpenedForEmptiing
                        => boxState' = StateEmpty ]_vars

\* The lid was just closed and locked after emptying while the master key
\* was at the reader.
C18_Witness ==
  /\ boxState = StateEmpty
  /\ card = RFIDMasterKey
  /\ lidClosed
  /\ lockPos = LockClosedPos
  /\ cmds = << Play(AnnouncementBoxClosed), LockCmd >>

\* ------------------------------------------------------------ C19
\* C19: OffSeason is the initial state; afterwards it is entered only by a
\* pass that starts in Empty with date = 24; it is left only by a pass with
\* the master key, and then to OpenedForFilling; no other step taken in
\* OffSeason (lid readings, the calendar moving on, standard or unknown
\* tokens) changes boxState, lastDay, firstUse or blinking.
C19_OffSeasonEntryAndExit ==
  /\ boxState = StateOffSeason
  /\ [][ /\ (boxState # StateOffSeason /\ boxState' = StateOffSeason)
            => (IsPass /\ boxState = StateEmpty /\ date = 24)
         /\ (boxState = StateOffSeason /\ boxState' # StateOffSeason)
            => (IsPass /\ card' = RFIDMasterKey
                       /\ boxState' = StateOpenedForFilling)
         /\ (boxState = StateOffSeason /\ ~(IsPass /\ card' = RFIDMasterKey))
            => (boxState' = StateOffSeason /\ AuxUnchanged) ]_vars

\* The box is back in OffSeason after a season: it was emptied on the 24th
\* of December, and the standard key has just been refused there.
C19_Witness ==
  /\ boxState = StateOffSeason
  /\ month = 12
  /\ lastDay = 24
  /\ card = RFIDStandardKey
  /\ cmds = << Play(AnnouncementUserTriedOffSeason) >>

\* ------------------------------------------------------------ C20
\* C20: the daily announcement plays the EarlyMorning greeting at hours 5 and
\* 6, the Morning greeting at hours 7 .. 10 and the Generic greeting at every
\* other hour.
C20_GreetingBandsAsDocumented ==
  [][ (IsPass /\ Announced)
        => cmds'[1] = Play(IF hour' \in 5 .. 6 THEN DaylyEarlyMorningGreeting
                           ELSE IF hour' \in 7 .. 10 THEN DaylyMorningGreeting
                           ELSE DaylyGreeting) ]_vars

====
